---- MODULE Spec2Model ----
(***************************************************************************)
(* Model of src/app.py: the Streamlit churn-risk dashboard.                *)
(*                                                                         *)
(* Every user interaction makes Streamlit run main() from the top.  One    *)
(* script run is modelled as the steps                                     *)
(*     "main" -> ("load" -> "loaded" -> ("assess")) -> "idle"              *)
(* and the user acts on the widgets of the last run while pc = "idle".     *)
(*                                                                         *)
(* Representation.                                                         *)
(*  - Python None is the empty sequence, a present value x is <<x>>.       *)
(*  - Floats in 0..1 are integers in thousandths (0.7 is 700, 0.42 is      *)
(*    420); NaN is a value outside that range, with IEEE comparisons.      *)
(*    Feature vectors are in hundredths.                                   *)
(*  - The Russian labels of the page are written as ASCII tags.            *)
(*  - The fitted scaler, encoder and classifiers are pickled artifacts     *)
(*    outside the repository: their content is drawn at load time and the  *)
(*    classifiers' outputs are drawn at the call.                          *)
(***************************************************************************)
EXTENDS Integers, Sequences, FiniteSets, TLC

\* ---------------------------------------------------------------- bounds
\* Number of load_resources() calls (script runs of an authenticated
\* session) explored.
MaxLoads == 4
\* Radius, in thousandths, of the probabilities drawn around each point of
\* interest (0, 0.30, 0.42, 0.70, 1).
Near == 1

\* --------------------------------------------------------- Python values
None == <<>>
Some(x) == <<x>>
IsNone(o) == o = <<>>
The(o) == o[1]

\* A float that is not a number (numpy.nan).
NaN == -999999
\* IEEE-754 ">": false as soon as one side is NaN.
Gt(a, b) == a # NaN /\ b # NaN /\ a > b

\* ------------------------------------------------ label dictionaries
\* Python dicts as sequences of <<key, value>> items, in insertion order.
education_map ==
    << <<"Unknown", "Neizvestno">>,
       <<"Uneducated", "Neobrazovannyj">>,
       <<"High School", "Srednyaya shkola">>,
       <<"College", "Kolledzh">>,
       <<"Graduate", "Vypusknik">>,
       <<"Post-Graduate", "Aspirant">>,
       <<"Doctorate", "Doktor nauk">> >>

marital_map ==
    << <<"Unknown", "Neizvestno">>,
       <<"Single", "Holost">>,
       <<"Married", "Zhenat">>,
       <<"Divorced", "Razveden">> >>

income_map ==
    << <<"Unknown", "Neizvestno">>,
       <<"Less than $40K", "Menee 4 mln">>,
       <<"$40K - $60K", "4-6 mln">>,
       <<"$60K - $80K", "6-8 mln">>,
       <<"$80K - $120K", "8-12 mln">>,
       <<"$120K +", "Bolee 12 mln">> >>

\* list(d.values())
DictValues(d) == [i \in 1..Len(d) |-> d[i][2]]
\* d.keys()
DictKeys(d) == {d[i][1] : i \in 1..Len(d)}
\* {v: k for k, v in d.items()}: a later item overwrites an earlier one
\* with the same value.
ReverseDict(d) ==
    [v \in {d[i][2] : i \in 1..Len(d)} |->
        LET last == CHOOSE i \in 1..Len(d) :
                        /\ d[i][2] = v
                        /\ \A j \in 1..Len(d) : d[j][2] = v => j <= i
        IN d[last][1]]

education_map_reverse == ReverseDict(education_map)
\* marital_map_reverse built from the dictionary of the line above it.
marital_map_reverse_copied == ReverseDict(education_map)
marital_map_reverse == ReverseDict(marital_map)
income_map_reverse == ReverseDict(income_map)

\* ------------------------------------------------------- authentication
users ==
    [user |-> [password |-> "user123", role |-> "user"],
     admin |-> [password |-> "admin123", role |-> "admin"],
     analyst |-> [password |-> "analyst123", role |-> "admin"]]

\* authenticate_user without the comparison of the password.
authenticate_user_any_password(username, password) ==
    IF username \in DOMAIN users THEN users[username].role ELSE "None"

\* The role of the account, or "None".
authenticate_user(username, password) ==
    IF username \in DOMAIN users /\ users[username].password = password
    THEN users[username].role
    ELSE "None"

\* Login/password pairs typed into the login form.
LoginInputs ==
    { <<"user", "user123">>, <<"admin", "admin123">>,
      <<"analyst", "analyst123">>, <<"user", "admin123">>,
      <<"guest", "guest123">>, <<"admin", "">> }

\* ------------------------------------------------------------ artifacts
\* The files load_resources reads, in the order it reads them.
ArtifactOrder ==
    << "models/gradient_boosting.pkl", "models/xgboost.pkl",
       "models/random_forest.pkl", "models/logistic_regression.pkl",
       "models/catboost.pkl", "models/scaler.pkl", "models/encoder.pkl",
       "models/feature_names.pkl",
       "models/business_report_gradient_boosting.json",
       "models/best_model_info.json" >>

\* The registry a complete load builds: model name -> artifact.
AllModels ==
    [n \in {"Gradient Boosting", "XGBoost", "Random Forest",
            "Logistic Regression", "CatBoost"} |->
        CASE n = "Gradient Boosting" -> ArtifactOrder[1]
          [] n = "XGBoost" -> ArtifactOrder[2]
          [] n = "Random Forest" -> ArtifactOrder[3]
          [] n = "Logistic Regression" -> ArtifactOrder[4]
          [] n = "CatBoost" -> ArtifactOrder[5]]

\* Fitted scalers the store may hold: the input columns they declare
\* (feature_names_in_) and the statistics they standardise with.  The last
\* one declares a column prepare_customer_data does not produce.
ScalerArtifacts ==
    { [feature_names_in_ |-> <<"Customer_Age", "Total_Trans_Amt">>,
       mean_ |-> <<46, 4404>>, scale_ |-> <<8, 3397>>],
      [feature_names_in_ |-> <<"Total_Trans_Amt", "Customer_Age">>,
       mean_ |-> <<4404, 46>>, scale_ |-> <<3397, 8>>],
      [feature_names_in_ |-> <<"Customer_Age", "CLIENTNUM">>,
       mean_ |-> <<46, 0>>, scale_ |-> <<8, 1>>] }

\* Fitted one-hot encoders the store may hold: declared input columns and
\* the categories of each.  The last one declares a column the record lacks.
EncoderArtifacts ==
    { [feature_names_in_ |-> <<"Gender", "Card_Category">>,
       categories_ |-> << <<"F", "M">>,
                          <<"Blue", "Gold", "Platinum", "Silver">> >>],
      [feature_names_in_ |-> <<"Gender", "Attrition_Flag">>,
       categories_ |-> << <<"F", "M">>,
                          <<"Attrited Customer", "Existing Customer">> >>] }

FeatureNames == <<"Customer_Age", "Total_Trans_Amt", "Gender", "Card_Category">>
BusinessReport == [business_metrics |-> "metrics", business_insights |-> "insights"]
BestModelInfo == [best_model |-> "Gradient Boosting"]

\* BankCustomerAnalytics.__init__ before load_resources runs.
EmptyAnalytics ==
    [models |-> <<>>, scaler |-> None, encoder |-> None,
     feature_names |-> None, best_model_info |-> <<>>,
     business_report |-> <<>>]

\* load_resources: the artifacts are read in order inside one try block;
\* failAt = 0 when every read succeeds, else the position in ArtifactOrder
\* of the first read that raises.  The five classifiers are assigned
\* together, once all five are read; every later attribute is assigned as
\* soon as its own read succeeds.
load_resources(failAt, sc, en) ==
    LET read(i) == failAt = 0 \/ i < failAt
    IN [models |-> IF read(5) THEN AllModels ELSE <<>>,
        scaler |-> IF read(6) THEN Some(sc) ELSE None,
        encoder |-> IF read(7) THEN Some(en) ELSE None,
        feature_names |-> IF read(8) THEN Some(FeatureNames) ELSE None,
        business_report |-> IF read(9) THEN BusinessReport ELSE <<>>,
        best_model_info |-> IF read(10) THEN BestModelInfo ELSE <<>>]

\* ---------------------------------------------------------- preprocessing
\* Whether df[cols] succeeds (pandas raises KeyError on a missing column).
HasColumns(df, cols) == \A i \in 1..Len(cols) : cols[i] \in DOMAIN df
\* df[cols]: the row's values in the order of cols.
Select(df, cols) == [i \in 1..Len(cols) |-> df[cols[i]]]

\* StandardScaler.transform on one row: (x - mean) / scale, in hundredths.
scaler_transform(scaler, row) ==
    [i \in 1..Len(row) |-> ((row[i] - scaler.mean_[i]) * 100) \div scaler.scale_[i]]

\* One column's one-hot block: 1.0 at the value's category, 0.0 elsewhere
\* (in hundredths, as the scaled columns).
OneHot(categories, v) ==
    [j \in 1..Len(categories) |-> IF categories[j] = v THEN 100 ELSE 0]

RECURSIVE encoder_blocks(_, _, _)
encoder_blocks(encoder, row, i) ==
    IF i > Len(row) THEN <<>>
    ELSE OneHot(encoder.categories_[i], row[i]) \o encoder_blocks(encoder, row, i + 1)

\* OneHotEncoder.transform on one row: the blocks of the declared columns,
\* in the declared order.
encoder_transform(encoder, row) == encoder_blocks(encoder, row, 1)

\* preprocess_input returning the scaled columns alone when selecting the
\* categorical columns raises.
preprocess_input_partial(an, input_df) ==
    IF IsNone(an.scaler) \/ IsNone(an.encoder) THEN None
    ELSE LET numeric_cols == The(an.scaler).feature_names_in_
             categorical_cols == The(an.encoder).feature_names_in_
         IN IF ~HasColumns(input_df, numeric_cols) THEN None
            ELSE LET X_num == scaler_transform(The(an.scaler),
                                               Select(input_df, numeric_cols))
                 IN IF ~HasColumns(input_df, categorical_cols) THEN Some(X_num)
                    ELSE Some(X_num \o encoder_transform(The(an.encoder),
                                          Select(input_df, categorical_cols)))

\* preprocess_input concatenating the encoded columns before the scaled ones.
preprocess_input_cat_first(an, input_df) ==
    IF IsNone(an.scaler) \/ IsNone(an.encoder) THEN None
    ELSE LET numeric_cols == The(an.scaler).feature_names_in_
             categorical_cols == The(an.encoder).feature_names_in_
         IN IF ~HasColumns(input_df, numeric_cols) THEN None
            ELSE IF ~HasColumns(input_df, categorical_cols) THEN None
            ELSE Some(encoder_transform(The(an.encoder),
                                        Select(input_df, categorical_cols))
                      \o scaler_transform(The(an.scaler),
                                          Select(input_df, numeric_cols)))

\* preprocess_input: Some(feature vector), or None after any exception
\* (the except branch reports it with st.error).
preprocess_input(an, input_df) ==
    IF IsNone(an.scaler) \/ IsNone(an.encoder) THEN None
    ELSE LET numeric_cols == The(an.scaler).feature_names_in_
             categorical_cols == The(an.encoder).feature_names_in_
         IN IF ~HasColumns(input_df, numeric_cols) THEN None
            ELSE IF ~HasColumns(input_df, categorical_cols) THEN None
            ELSE LET X_num == scaler_transform(The(an.scaler),
                                               Select(input_df, numeric_cols))
                     X_cat == encoder_transform(The(an.encoder),
                                                Select(input_df, categorical_cols))
                 IN Some(X_num \o X_cat)

\* prepare_customer_data: the one-row frame handed to preprocess_input.
prepare_customer_data(age, gender, dependents, education, marital, income, card, months, products, inactive, contacts, limit, balance, trans_amt, trans_ct, utilization) ==
    LET avg_open_to_buy == limit - balance
    IN [Customer_Age |-> age,
        Gender |-> gender,
        Dependent_count |-> dependents,
        Education_Level |-> education,
        Marital_Status |-> marital,
        Income_Category |-> income,
        Card_Category |-> card,
        Months_on_book |-> months,
        Total_Relationship_Count |-> products,
        Months_Inactive_12_mon |-> inactive,
        Contacts_Count_12_mon |-> contacts,
        Credit_Limit |-> limit,
        Total_Revolving_Bal |-> balance,
        Avg_Open_To_Buy |-> avg_open_to_buy,
        Total_Trans_Amt |-> trans_amt,
        Total_Trans_Ct |-> trans_ct,
        Avg_Utilization_Ratio |-> utilization,
        Total_Amt_Chng_Q4_Q1 |-> 800,
        Total_Ct_Chng_Q4_Q1 |-> 800]

\* ---------------------------------------------------------------- scoring
\* The literals 0.7 and 0.3 of show_prediction_results, in thousandths.
HighRiskThreshold == 700
MediumRiskThreshold == 300

\* risk_level with the upper threshold taken inclusively.
risk_level_inclusive(probability) ==
    IF probability # NaN /\ probability >= HighRiskThreshold THEN "High"
    ELSE IF Gt(probability, MediumRiskThreshold) THEN "Medium"
    ELSE "Low"

\* The if/elif/else of show_prediction_results ("Vysokij", "Srednij",
\* "Nizkij" on the page).
risk_level(probability) ==
    IF Gt(probability, HighRiskThreshold) THEN "High"
    ELSE IF Gt(probability, MediumRiskThreshold) THEN "Medium"
    ELSE "Low"

\* annual_clv without the annualisation.
annual_clv_monthly(customer_data) == customer_data.Total_Trans_Amt

\* clv = customer_data['Total_Trans_Amt'].iloc[0] * 12
annual_clv(customer_data) == customer_data.Total_Trans_Amt * 12

\* show_prediction_results: what the three metrics of the page show.  The
\* prediction and model_name arguments are not read.
show_prediction_results(probability, prediction, customer_data, model_name) ==
    [risk_level |-> risk_level(probability),
     probability |-> probability,
     clv |-> annual_clv(customer_data)]

\* churn_probability reading the second class of the row.
churn_probability_second(row) == IF Len(row) >= 2 THEN row[2] ELSE row[1]

\* probability = model.predict_proba(X_processed)[0][0]
churn_probability(row) == row[1]

\* What a classifier's predict(X)[0] may do: raise (None) or return a class.
PredictOutcomes == {None, Some(0), Some(1)}

\* Probabilities drawn for the first row of predict_proba: values within
\* Near of 0, 0.30, 0.42, 0.70 and 1, so some fall outside [0, 1].
ProbValues == {c + d : c \in {0, 300, 420, 700, 1000}, d \in (0 - Near)..Near}

\* What predict_proba(X)[0] may be: well-formed two-class rows, rows of
\* another length, a row of NaN.
ProbaRows ==
    {<<p, 1000 - p>> : p \in ProbValues}
        \cup {<<>>, <<420>>, <<420, 580, 0>>, <<200, 300, 500>>, <<NaN, NaN>>}

\* What predict_proba may do: raise (None) or return a row.
PredictProbaOutcomes == {None} \cup {Some(r) : r \in ProbaRows}

\* The result of one press of the assessment button.
NoAssessment ==
    [pressed |-> FALSE, X_processed |-> None, invoked |-> {},
     prediction |-> None, proba |-> None, result |-> None,
     messages |-> {}, crashed |-> FALSE]

\* The frame the button branch builds from the widgets: the three reverse
\* label lookups, then prepare_customer_data.
input_frame(fm) ==
    prepare_customer_data(
        fm.customer_age, fm.gender, fm.dependent_count,
        education_map_reverse[fm.education_level],
        marital_map_reverse[fm.marital_status],
        income_map_reverse[fm.income_category],
        fm.card_category, fm.months_on_book,
        fm.total_relationship_count, fm.months_inactive,
        fm.contacts_count, fm.credit_limit, fm.total_revolving_bal,
        fm.total_trans_amt, fm.total_trans_ct, fm.avg_utilization_ratio)

\* Whether one of the three reverse lookups raises KeyError.
LabelMissing(fm) ==
    \/ fm.education_level \notin DOMAIN education_map_reverse
    \/ fm.marital_status \notin DOMAIN marital_map_reverse
    \/ fm.income_category \notin DOMAIN income_map_reverse

Pressed == [NoAssessment EXCEPT !.pressed = TRUE]

\* show_customer_assessment without its try/except: an exception of the
\* model call ends the run.
show_customer_assessment_uncaught(an, fm, predict, predict_proba) ==
    IF LabelMissing(fm) THEN [Pressed EXCEPT !.crashed = TRUE]
    ELSE
    LET input_data == input_frame(fm)
        failed == [Pressed EXCEPT !.crashed = TRUE]
    IN IF fm.model_choice \notin DOMAIN an.models
       THEN failed
       ELSE LET X == preprocess_input(an, input_data)
            IN IF IsNone(X)
               THEN [Pressed EXCEPT !.messages = {"preprocess_error"}]
               ELSE IF IsNone(predict)
               THEN [failed EXCEPT !.X_processed = X, !.invoked = {"predict"}]
               ELSE IF IsNone(predict_proba)
               THEN [failed EXCEPT !.X_processed = X, !.prediction = predict,
                                   !.invoked = {"predict", "predict_proba"}]
               ELSE IF Len(The(predict_proba)) = 0
               THEN [failed EXCEPT !.X_processed = X, !.prediction = predict,
                                   !.invoked = {"predict", "predict_proba"},
                                   !.proba = predict_proba]
               ELSE [Pressed EXCEPT
                        !.X_processed = X,
                        !.invoked = {"predict", "predict_proba"},
                        !.prediction = predict,
                        !.proba = predict_proba,
                        !.result = Some(show_prediction_results(
                                        churn_probability(The(predict_proba)),
                                        The(predict), input_data,
                                        fm.model_choice))]

\* The button branch of show_customer_assessment: the reverse label
\* lookups and prepare_customer_data, then the try block.  `predict` and
\* `predict_proba` are what the chosen classifier does if it is called.
show_customer_assessment(an, fm, predict, predict_proba) ==
    IF LabelMissing(fm)
    THEN \* KeyError outside the try block
         [Pressed EXCEPT !.crashed = TRUE]
    ELSE
    LET input_data == input_frame(fm)
        \* except Exception: st.error("Oshibka pri prognozirovanii")
        failed == [Pressed EXCEPT !.messages = {"prediction_error"}]
    IN IF fm.model_choice \notin DOMAIN an.models
       THEN failed   \* KeyError of analytics.models[model_choice]
       ELSE LET X == preprocess_input(an, input_data)
            IN IF IsNone(X)
               THEN \* reported by preprocess_input itself
                    [Pressed EXCEPT !.messages = {"preprocess_error"}]
               ELSE IF IsNone(predict)
               THEN [failed EXCEPT !.X_processed = X, !.invoked = {"predict"}]
               ELSE IF IsNone(predict_proba)
               THEN [failed EXCEPT !.X_processed = X, !.prediction = predict,
                                   !.invoked = {"predict", "predict_proba"}]
               ELSE IF Len(The(predict_proba)) = 0
               THEN \* IndexError on [0][0]
                    [failed EXCEPT !.X_processed = X, !.prediction = predict,
                                   !.invoked = {"predict", "predict_proba"},
                                   !.proba = predict_proba]
               ELSE [Pressed EXCEPT
                        !.X_processed = X,
                        !.invoked = {"predict", "predict_proba"},
                        !.prediction = predict,
                        !.proba = predict_proba,
                        !.result = Some(show_prediction_results(
                                        churn_probability(The(predict_proba)),
                                        The(predict), input_data,
                                        fm.model_choice))]

\* ------------------------------------------------------------------ state
VARIABLES
    authenticated, role, username,   \* st.session_state
    pc,             \* where the script run stands; "idle" between runs
    event,          \* the widget that triggered the run
    login_form,     \* <<login, password>> submitted with the login form
    section,        \* the sidebar radio
    form,           \* the widgets of the assessment page
    analytics,      \* the BankCustomerAnalytics object of the run
    loads,          \* calls of load_resources so far
    load_failed,    \* some call of load_resources has returned False
    rendered,       \* parts of the page the run has rendered
    messages,       \* st.error / st.success boxes of the run
    crashed,        \* the run ended in an uncaught exception
    assessment      \* outcome of the assessment button in this run

vars ==
    <<authenticated, role, username, pc, event, login_form, section, form,
      analytics, loads, load_failed, rendered, messages, crashed, assessment>>

session == <<authenticated, role, username>>
widgets == <<login_form, section, form>>
page == <<rendered, messages, crashed, assessment>>

\* The sidebar offering the three sections to every role.
Sections_for_all(r) == {"overview", "assessment", "comparison"}

\* The sections the sidebar offers to a role.
Sections(r) ==
    IF r = "admin" THEN {"overview", "assessment", "comparison"}
    ELSE {"overview", "assessment"}

\* The widgets' initial values (index=0 of each selectbox, the value
\* argument of each slider and number_input).
DefaultForm ==
    [model_choice |-> "Gradient Boosting",
     customer_age |-> 45, gender |-> "M", dependent_count |-> 1,
     education_level |-> DictValues(education_map)[1],
     marital_status |-> DictValues(marital_map)[1],
     income_category |-> DictValues(income_map)[1],
     card_category |-> "Blue", credit_limit |-> 5000,
     total_revolving_bal |-> 500, total_trans_amt |-> 5000,
     months_on_book |-> 36, total_relationship_count |-> 3,
     months_inactive |-> 2, contacts_count |-> 2, total_trans_ct |-> 50,
     avg_utilization_ratio |-> 300]

\* Values the user sets before pressing the button (the other widgets stay
\* at their defaults).
AgeInputs == {45}
GenderInputs == {"M", "F"}
TransAmtInputs == {0, 5000, 5000000}

Init ==
    /\ authenticated = FALSE
    /\ role = "None"
    /\ username = "None"
    /\ pc = "main"
    /\ event = "none"
    /\ login_form = <<"", "">>
    /\ section = "overview"
    /\ form = DefaultForm
    /\ analytics = EmptyAnalytics
    /\ loads = 0
    /\ load_failed = FALSE
    /\ rendered = {}
    /\ messages = {}
    /\ crashed = FALSE
    /\ assessment = NoAssessment

\* ----------------------------------------------------------- user events
\* The login form is submitted.
SubmitLogin(u, p) ==
    /\ pc = "idle"
    /\ "login" \in rendered
    /\ loads < MaxLoads
    /\ login_form' = <<u, p>>
    /\ event' = "login"
    /\ pc' = "main"
    /\ UNCHANGED <<session, section, form, analytics, loads, load_failed, page>>

\* The logout button of the header is pressed.
ClickLogout ==
    /\ pc = "idle"
    /\ "header" \in rendered
    /\ event' = "logout"
    /\ pc' = "main"
    /\ UNCHANGED <<session, widgets, analytics, loads, load_failed, page>>

\* A section is chosen in the sidebar.
SelectSection(s) ==
    /\ pc = "idle"
    /\ "sidebar" \in rendered
    /\ loads < MaxLoads
    /\ s \in Sections(role)
    /\ section' = s
    /\ event' = "select"
    /\ pc' = "main"
    /\ UNCHANGED <<session, login_form, form, analytics, loads, load_failed, page>>

\* The assessment button is pressed, with the form as the user has set it;
\* the model selectbox offers list(analytics.models.keys()).
ClickAssess(mc, age, gender, amt) ==
    /\ pc = "idle"
    /\ "assessment" \in rendered
    /\ loads < MaxLoads
    /\ mc \in DOMAIN analytics.models
    /\ form' = [form EXCEPT !.model_choice = mc, !.customer_age = age,
                            !.gender = gender, !.total_trans_amt = amt]
    /\ event' = "assess"
    /\ pc' = "main"
    /\ UNCHANGED <<session, login_form, section, analytics, loads, load_failed, page>>

\* ------------------------------------------------------------- script run
\* main() for a session that is not authenticated: show_login, then return.
ShowLogin ==
    /\ pc = "main"
    /\ ~authenticated
    /\ rendered' = {"login"}
    /\ crashed' = FALSE
    /\ assessment' = NoAssessment
    /\ section' = "overview"
    /\ form' = DefaultForm
    /\ event' = "none"
    /\ IF event = "login"
       THEN LET r == authenticate_user(login_form[1], login_form[2])
            IN IF r # "None"
               THEN /\ authenticated' = TRUE
                    /\ role' = r
                    /\ username' = login_form[1]
                    /\ messages' = {"login_success"}
                    /\ pc' = "main"    \* st.rerun()
               ELSE /\ messages' = {"login_error"}
                    /\ pc' = "idle"
                    /\ UNCHANGED session
       ELSE /\ messages' = {}
            /\ pc' = "idle"
            /\ UNCHANGED session
    /\ UNCHANGED <<login_form, analytics, loads, load_failed>>

\* main() for an authenticated session, up to the logout button.
Header ==
    /\ pc = "main"
    /\ authenticated
    /\ rendered' = {"header"}
    /\ messages' = {}
    /\ crashed' = FALSE
    /\ assessment' = NoAssessment
    /\ IF event = "logout"
       THEN /\ authenticated' = FALSE
            /\ role' = "None"
            /\ username' = "None"
            /\ event' = "none"
            /\ pc' = "main"    \* st.rerun()
       ELSE /\ pc' = "load"
            /\ UNCHANGED <<session, event>>
    /\ UNCHANGED <<widgets, analytics, loads, load_failed>>

\* analytics = BankCustomerAnalytics(): every run of an authenticated
\* session reads the store again.
LoadResources ==
    /\ pc = "load"
    /\ \E failAt \in 0..Len(ArtifactOrder), sc \in ScalerArtifacts, en \in EncoderArtifacts :
          /\ analytics' = load_resources(failAt, sc, en)
          /\ load_failed' = (load_failed \/ failAt # 0)
          /\ messages' = IF failAt # 0 THEN messages \cup {"load_error"} ELSE messages
    /\ loads' = loads + 1
    /\ pc' = "loaded"
    /\ UNCHANGED <<session, event, widgets, rendered, crashed, assessment>>

\* The rest of main(): st.stop() on an empty registry, else the sidebar and
\* the chosen section.
Dispatch ==
    /\ pc = "loaded"
    /\ IF DOMAIN analytics.models = {}
       THEN /\ pc' = "idle"
            /\ UNCHANGED <<rendered, crashed>>
       ELSE CASE section = "overview" ->
                    \* show_business_overview indexes the report at once
                    /\ rendered' = rendered \cup {"sidebar", "overview"}
                    /\ crashed' = ("business_metrics" \notin DOMAIN analytics.business_report)
                    /\ pc' = "idle"
              [] section = "assessment" ->
                    /\ rendered' = rendered \cup {"sidebar", "assessment"}
                    /\ crashed' = FALSE
                    /\ pc' = IF event = "assess" THEN "assess" ELSE "idle"
              [] section = "comparison" ->
                    /\ rendered' = rendered \cup {"sidebar", "comparison"}
                    /\ crashed' = FALSE
                    /\ pc' = "idle"
    /\ event' = IF event = "assess" /\ pc' = "assess" THEN event ELSE "none"
    /\ UNCHANGED <<session, widgets, analytics, loads, load_failed, messages, assessment>>

\* The button branch of show_customer_assessment.
Assess ==
    /\ pc = "assess"
    /\ \E predict \in PredictOutcomes, predict_proba \in PredictProbaOutcomes :
          LET out == show_customer_assessment(analytics, form, predict, predict_proba)
          IN /\ assessment' = out
             /\ messages' = messages \cup out.messages
             /\ crashed' = out.crashed
    /\ event' = "none"
    /\ pc' = "idle"
    /\ UNCHANGED <<session, widgets, analytics, loads, load_failed, rendered>>

Next ==
    \/ \E lp \in LoginInputs : SubmitLogin(lp[1], lp[2])
    \/ ClickLogout
    \/ \E s \in {"overview", "assessment", "comparison"} : SelectSection(s)
    \/ \E mc \in DOMAIN AllModels, age \in AgeInputs, gender \in GenderInputs,
          amt \in TransAmtInputs : ClickAssess(mc, age, gender, amt)
    \/ ShowLogin
    \/ Header
    \/ LoadResources
    \/ Dispatch
    \/ Assess

Spec == Init /\ [][Next]_vars

\* ------------------------------------------------------------ properties
\* The assessment shown by the current run, when there is one.
HasResult == ~IsNone(assessment.result)
Shown == The(assessment.result)
\* The first row of predict_proba, when the classifier returned one.
HasRow == ~IsNone(assessment.proba)
Row == The(assessment.proba)

\* C1: for a churn probability p in [0, 1], the tier shown is High exactly
\* when p > 0.70, Medium exactly when 0.30 < p <= 0.70 and Low exactly when
\* p <= 0.30 (so 0.70 is Medium, 0.30 is Low, and the next value above 0.70
\* is High).
C1_RiskTierThresholds ==
    (HasResult /\ Shown.probability \in 0..1000) =>
        /\ (Shown.risk_level = "High") <=> (Shown.probability > 700)
        /\ (Shown.risk_level = "Medium") <=>
               (300 < Shown.probability /\ Shown.probability <= 700)
        /\ (Shown.risk_level = "Low") <=> (Shown.probability <= 300)

\* A probability of exactly 0.70 has been scored and shown as Medium.
C1_Witness ==
    HasResult /\ Shown.probability = 700 /\ Shown.risk_level = "Medium"

\* C2: once a call of load_resources has failed on any artifact, no section
\* of the dashboard is rendered and no assessment request is processed.
C2_FailedLoadServesNothing ==
    load_failed =>
        /\ rendered \cap {"overview", "assessment", "comparison"} = {}
        /\ ~assessment.pressed
        /\ pc # "assess"

\* A row of predict_proba that is not a distribution over two classes.
Malformed(row) ==
    \/ Len(row) # 2
    \/ \E i \in 1..Len(row) : row[i] = NaN \/ row[i] < 0 \/ row[i] > 1000

\* C3: when the classifier's probability row is malformed (length other
\* than 2, NaN, a value outside [0, 1]), the request ends in a reported
\* prediction error and shows no tier, probability or CLV.
C3_MalformedOutputIsAnError ==
    (HasRow /\ Malformed(Row)) =>
        /\ ~HasResult
        /\ "prediction_error" \in assessment.messages

\* C4: the probability shown is the first element of the classifier's
\* probability row and the tier is the one of that value, whatever the
\* classifier's discrete prediction is; the row [0.42, 0.58] gives
\* probability 0.42 and tier Medium.
C4_ProbabilityIsFirstClass ==
    HasResult =>
        /\ HasRow
        /\ Shown.probability = Row[1]
        /\ (Row[1] \in 0..1000 =>
               Shown.risk_level =
                   IF Row[1] > 700 THEN "High"
                   ELSE IF Row[1] > 300 THEN "Medium" ELSE "Low")
        /\ (Row = <<420, 580>> =>
               Shown.probability = 420 /\ Shown.risk_level = "Medium")

\* The stub row [0.42, 0.58] has been scored as 0.42 / Medium by a
\* classifier whose discrete prediction is class 0.
C4_Witness ==
    /\ HasResult
    /\ Row = <<420, 580>>
    /\ assessment.prediction = Some(0)
    /\ Shown.probability = 420
    /\ Shown.risk_level = "Medium"

\* The columns of the frame prepare_customer_data builds.
FrameColumns == DOMAIN input_frame(DefaultForm)

\* Both transformers are loaded and one of them declares a column the
\* frame lacks.
ColumnMissing ==
    /\ ~IsNone(analytics.scaler)
    /\ ~IsNone(analytics.encoder)
    /\ \/ \E i \in 1..Len(The(analytics.scaler).feature_names_in_) :
              The(analytics.scaler).feature_names_in_[i] \notin FrameColumns
       \/ \E i \in 1..Len(The(analytics.encoder).feature_names_in_) :
              The(analytics.encoder).feature_names_in_[i] \notin FrameColumns

\* C5: a request whose record lacks a column the scaler or the encoder
\* declares gets no feature vector at all from preprocess_input (a reported
\* preprocessing error), calls neither predict nor predict_proba and shows
\* no assessment.
C5_MissingColumnStopsRequest ==
    (assessment.pressed /\ ColumnMissing) =>
        /\ IsNone(assessment.X_processed)
        /\ "preprocess_error" \in assessment.messages
        /\ assessment.invoked = {}
        /\ ~HasResult

\* A request has been processed with a scaler whose columns are all present
\* and an encoder that declares a column the record lacks.
C5_Witness ==
    /\ assessment.pressed
    /\ ColumnMissing
    /\ \A i \in 1..Len(The(analytics.scaler).feature_names_in_) :
           The(analytics.scaler).feature_names_in_[i] \in FrameColumns
    /\ "preprocess_error" \in messages

\* C7: the artifacts are read from the store once in the life of the
\* process; no later run reads any of them again.
C7_LoadedOnce == loads <= 1

ColumnsPresent ==
    /\ ~IsNone(analytics.scaler)
    /\ ~IsNone(analytics.encoder)
    /\ ~ColumnMissing

\* Number of encoded positions before the block of the k-th declared
\* categorical column.
RECURSIVE BlockStart(_, _)
BlockStart(categories, k) ==
    IF k <= 1 THEN 0
    ELSE BlockStart(categories, k - 1) + Len(categories[k - 1])

\* The run that processed the assessment button has ended: the page shows
\* its outcome for the values the form holds.
RequestDone == pc = "idle" /\ assessment.pressed

\* C9: for a record that has every declared column, the feature vector is
\* the standardised numeric columns in the scaler's declared order followed
\* by the one-hot blocks of the categorical columns in the encoder's
\* declared order; its length is the sum of the two parts, and it depends
\* on the record and the transformers only.
C9_FeatureVectorLayout ==
    (RequestDone /\ ColumnsPresent) =>
        /\ ~IsNone(assessment.X_processed)
        /\ LET X == The(assessment.X_processed)
               df == input_frame(form)
               sc == The(analytics.scaler)
               en == The(analytics.encoder)
               n == Len(sc.feature_names_in_)
               m == Len(en.feature_names_in_)
           IN /\ Len(X) = n + BlockStart(en.categories_, m + 1)
              /\ \A i \in 1..n :
                     X[i] = ((df[sc.feature_names_in_[i]] - sc.mean_[i]) * 100)
                                \div sc.scale_[i]
              /\ \A k \in 1..m : \A j \in 1..Len(en.categories_[k]) :
                     X[n + BlockStart(en.categories_, k) + j] =
                         IF en.categories_[k][j] = df[en.feature_names_in_[k]]
                         THEN 100 ELSE 0

\* A record has been encoded by a scaler that declares Total_Trans_Amt
\* before Customer_Age, into a vector of 2 + (2 + 4) positions.
C9_Witness ==
    /\ RequestDone
    /\ ColumnsPresent
    /\ The(analytics.scaler).feature_names_in_[1] = "Total_Trans_Amt"
    /\ form.gender = "F"
    /\ ~IsNone(assessment.X_processed)
    /\ Len(The(assessment.X_processed)) = 8

\* C10: the annual customer value shown is the form's total transaction
\* amount times 12, whatever the probability, the tier and the model.
C10_AnnualValue ==
    (RequestDone /\ HasResult) => Shown.clv = form.total_trans_amt * 12

\* A total transaction amount of 5000 has been shown as 60000.
C10_Witness ==
    RequestDone /\ HasResult /\ form.total_trans_amt = 5000 /\ Shown.clv = 60000

\* --------------------------------------------- the label dictionaries
\* The button branch for every choice of labels: an authenticated session
\* on the assessment page, the registry loaded, the three label
\* selectboxes set to any of the labels they offer (list(map.values())),
\* and the button just pressed.
InitLabels ==
    /\ authenticated = TRUE
    /\ role = "user"
    /\ username = "user"
    /\ pc = "assess"
    /\ event = "assess"
    /\ login_form = <<"user", "user123">>
    /\ section = "assessment"
    /\ \E e \in 1..Len(education_map), m \in 1..Len(marital_map),
          i \in 1..Len(income_map) :
          form = [DefaultForm EXCEPT
                     !.education_level = DictValues(education_map)[e],
                     !.marital_status = DictValues(marital_map)[m],
                     !.income_category = DictValues(income_map)[i]]
    /\ \E sc \in ScalerArtifacts, en \in EncoderArtifacts :
          analytics = load_resources(0, sc, en)
    /\ loads = 3
    /\ load_failed = FALSE
    /\ rendered = {"header", "sidebar", "assessment"}
    /\ messages = {}
    /\ crashed = FALSE
    /\ assessment = NoAssessment

NextLabels == Assess

SpecLabels == InitLabels /\ [][NextLabels]_vars

\* d[k] of a dict given as items.
Forward(d, k) == d[CHOOSE i \in 1..Len(d) : d[i][1] = k][2]

\* The display label is offered by dictionary d, exactly one model label
\* carries it, the reverse dictionary rev finds that model label, and the
\* model label reads forward as the display label again.
RoundTrips(d, rev, label) ==
    /\ \E i \in 1..Len(d) : d[i][2] = label
    /\ Cardinality({i \in 1..Len(d) : d[i][2] = label}) = 1
    /\ label \in DOMAIN rev
    /\ rev[label] \in DictKeys(d)
    /\ Forward(d, rev[label]) = label

\* C11: the display-label to model-label translation of education, marital
\* status and income category is a bijection: each label chosen in the form
\* has exactly one model label, which maps forward to the same display label,
\* so the three reverse lookups of the button branch never fail and the
\* record carries the model label of the label chosen.
C11_LabelsRoundTrip ==
    /\ Cardinality(DictKeys(education_map)) = Len(education_map)
    /\ Cardinality(DictKeys(marital_map)) = Len(marital_map)
    /\ Cardinality(DictKeys(income_map)) = Len(income_map)
    /\ RoundTrips(education_map, education_map_reverse, form.education_level)
    /\ RoundTrips(marital_map, marital_map_reverse, form.marital_status)
    /\ RoundTrips(income_map, income_map_reverse, form.income_category)
    /\ assessment.pressed =>
          /\ ~assessment.crashed
          /\ Forward(education_map, input_frame(form).Education_Level)
                 = form.education_level
          /\ Forward(marital_map, input_frame(form).Marital_Status)
                 = form.marital_status
          /\ Forward(income_map, input_frame(form).Income_Category)
                 = form.income_category

\* The button branch has run for the last label of each of the three
\* selectboxes and has shown an assessment.
C11_Witness ==
    /\ assessment.pressed
    /\ form.education_level = DictValues(education_map)[Len(education_map)]
    /\ form.marital_status = DictValues(marital_map)[Len(marital_map)]
    /\ form.income_category = DictValues(income_map)[Len(income_map)]
    /\ input_frame(form).Marital_Status = "Divorced"
    /\ HasResult

\* ----------------------------------------------------------- the session
\* C12: whatever logins, logouts and reruns have happened, the sidebar and
\* the sections are on the page, the script is at or past the load of the
\* artifacts, and an assessment request is processed only in an
\* authenticated session; the model comparison is on the page only for the
\* role admin.
C12_OnlyAuthenticatedServed ==
    /\ rendered \cap {"sidebar", "overview", "assessment", "comparison"} # {}
           => authenticated
    /\ pc \in {"load", "loaded", "assess"} => authenticated
    /\ assessment.pressed => authenticated
    /\ "comparison" \in rendered => role = "admin"

\* The model comparison is on the page of the admin account analyst, after
\* a run that read the artifacts.
C12_Witness ==
    /\ "comparison" \in rendered
    /\ authenticated
    /\ role = "admin"
    /\ username = "analyst"
    /\ loads >= 2
    /\ pc = "idle"

\* The session names a known account in the role stored for it.
SessionOfAccount ==
    /\ role \in {"user", "admin"}
    /\ username \in {"user", "admin", "analyst"}
    /\ role = (IF username = "user" THEN "user" ELSE "admin")

\* The login form was submitted with an unknown login or a wrong password.
FailedAttempt ==
    /\ pc = "main"
    /\ ~authenticated
    /\ event = "login"
    /\ login_form \notin {<<"user", "user123">>, <<"admin", "admin123">>,
                          <<"analyst", "analyst123">>}

\* The logout button was pressed.
LogoutRun == pc = "main" /\ authenticated /\ event = "logout"

\* C13: the session is authenticated exactly when its role is user or
\* admin and its username is a known account with that role; a failed
\* login attempt leaves authenticated, role and username as they were, and
\* a logout sets authenticated to false and role and username to none.
C13_SessionState ==
    /\ [](authenticated <=> SessionOfAccount)
    /\ [][/\ FailedAttempt => UNCHANGED session
          /\ LogoutRun => (~authenticated' /\ role' = "None" /\ username' = "None")
         ]_vars

\* A wrong password for a known login has been refused after an earlier
\* login and logout, and the session is still empty.
C13_Witness ==
    /\ messages = {"login_error"}
    /\ login_form = <<"user", "admin123">>
    /\ ~authenticated
    /\ role = "None"
    /\ username = "None"
    /\ loads >= 1

====
